---- MODULE Spec2Model ----
(***************************************************************************)
(* Embedded control web server of the tailscaled fork (cmd/tailscaled/web): *)
(* the access gate requireTailscale, the three route handlers, the         *)
(* per-platform metrics collector and the per-platform shutdown actuator.  *)
(*                                                                         *)
(* Strings are sequences of one-character strings, so that the address     *)
(* conversions (net.SplitHostPort, netip.ParseAddr, netip.Addr.String) are *)
(* computed character by character as the library computes them.           *)
(***************************************************************************)
EXTENDS Integers, Sequences, FiniteSets, TLC

(***************************************************************************)
(* Characters and small string helpers                                     *)
(***************************************************************************)
Digits == <<"0", "1", "2", "3", "4", "5", "6", "7", "8", "9">>

HexLower == <<"0", "1", "2", "3", "4", "5", "6", "7", "8", "9",
              "a", "b", "c", "d", "e", "f">>

HexUpper == <<"0", "1", "2", "3", "4", "5", "6", "7", "8", "9",
              "A", "B", "C", "D", "E", "F">>

IsDigit(c) == \E i \in 1..10 : Digits[i] = c

DecVal(c) == (CHOOSE i \in 1..10 : Digits[i] = c) - 1

IsHex(c) == \E i \in 1..16 : HexLower[i] = c \/ HexUpper[i] = c

HexVal(c) == (CHOOSE i \in 1..16 : HexLower[i] = c \/ HexUpper[i] = c) - 1

\* strings.IndexByte, 1-based; 0 when the byte does not occur
IndexByte(s, c) ==
    IF \E i \in 1..Len(s) : s[i] = c
    THEN CHOOSE i \in 1..Len(s) : s[i] = c /\ \A j \in 1..(i - 1) : s[j] # c
    ELSE 0

\* strings.LastIndexByte, 1-based; 0 when the byte does not occur
LastIndexByte(s, c) ==
    IF \E i \in 1..Len(s) : s[i] = c
    THEN CHOOSE i \in 1..Len(s) : s[i] = c /\ \A j \in (i + 1)..Len(s) : s[j] # c
    ELSE 0

\* s[from:] with a 1-based first index
Tail_(s, from) == SubSeq(s, from, Len(s))

\* strings.HasPrefix
HasPrefix(s, p) == Len(s) >= Len(p) /\ SubSeq(s, 1, Len(p)) = p

\* value of a string of decimal digits
RECURSIVE DecNum(_)
DecNum(s) == IF s = <<>> THEN 0
             ELSE DecNum(SubSeq(s, 1, Len(s) - 1)) * 10 + DecVal(s[Len(s)])

\* value of a string of hexadecimal digits
RECURSIVE HexNum(_)
HexNum(s) == IF s = <<>> THEN 0
             ELSE HexNum(SubSeq(s, 1, Len(s) - 1)) * 16 + HexVal(s[Len(s)])

\* decimal text of a small natural number (strconv.AppendUint base 10)
RECURSIVE AppendDecimal(_)
AppendDecimal(n) == IF n < 10 THEN <<Digits[n + 1]>>
                    ELSE AppendDecimal(n \div 10) \o <<Digits[(n % 10) + 1]>>

\* lower-case hexadecimal text without leading zeros (netip appendHex)
RECURSIVE AppendHex(_)
AppendHex(n) == IF n < 16 THEN <<HexLower[n + 1]>>
                ELSE AppendHex(n \div 16) \o <<HexLower[(n % 16) + 1]>>

\* bitwise AND of two bytes, bit by bit
RECURSIVE BitAnd(_, _)
BitAnd(x, y) == IF x = 0 \/ y = 0 THEN 0
                ELSE 2 * BitAnd(x \div 2, y \div 2) + ((x % 2) * (y % 2))

(***************************************************************************)
(* net.SplitHostPort                                                       *)
(***************************************************************************)
SplitErr == [host |-> <<>>, port |-> <<>>, err |-> TRUE]

SplitHostPort(hostport) ==
    LET n == Len(hostport)
        i == LastIndexByte(hostport, ":")
    IN  IF i = 0 THEN SplitErr                        \* missing port
        ELSE IF hostport[1] = "["
        THEN LET end == IndexByte(hostport, "]")
             IN  IF end = 0 THEN SplitErr             \* missing ']'
                 ELSE IF end = n THEN SplitErr        \* missing port
                 ELSE IF end + 1 # i THEN SplitErr    \* too many colons / missing port
                 ELSE IF IndexByte(Tail_(hostport, 2), "[") # 0 THEN SplitErr
                 ELSE IF IndexByte(Tail_(hostport, end + 1), "]") # 0 THEN SplitErr
                 ELSE [host |-> SubSeq(hostport, 2, end - 1),
                       port |-> Tail_(hostport, i + 1), err |-> FALSE]
        ELSE LET host == SubSeq(hostport, 1, i - 1)
             IN  IF IndexByte(host, ":") # 0 THEN SplitErr   \* too many colons
                 ELSE IF IndexByte(hostport, "[") # 0 THEN SplitErr
                 ELSE IF IndexByte(hostport, "]") # 0 THEN SplitErr
                 ELSE [host |-> host, port |-> Tail_(hostport, i + 1), err |-> FALSE]

(***************************************************************************)
(* netip.Addr and netip.ParseAddr                                          *)
(* An Addr is [z, b, zone]: z is "z0" (zero Addr), "z4" or "z6"; b is the  *)
(* 16-byte value (an IPv4 address is held in its v4-mapped form, as netip  *)
(* holds it); zone is the IPv6 zone text.                                  *)
(***************************************************************************)
ZeroAddr == [z |-> "z0", b |-> [k \in 1..16 |-> 0], zone |-> <<>>]

ParseErr == [ok |-> FALSE, addr |-> ZeroAddr]

V4MappedPrefix == <<0, 0, 0, 0, 0, 0, 0, 0, 0, 0, 255, 255>>

AddrFrom4(f) == [z |-> "z4", b |-> V4MappedPrefix \o f, zone |-> <<>>]

AddrFrom16(b, zone) == [z |-> "z6", b |-> b, zone |-> zone]

\* the dot-separated fields of s
RECURSIVE SplitOn(_, _)
SplitOn(s, c) ==
    LET i == IndexByte(s, c)
    IN  IF i = 0 THEN <<s>>
        ELSE <<SubSeq(s, 1, i - 1)>> \o SplitOn(Tail_(s, i + 1), c)

\* parseIPv4Fields accepting octets with leading zeros
V4FieldOk_lenient(f) ==
    /\ Len(f) >= 1
    /\ Len(f) <= 3
    /\ \A k \in 1..Len(f) : IsDigit(f[k])
    /\ DecNum(f) <= 255

\* netip parseIPv4Fields: four dot-separated decimal octets, each with at
\* least one digit, no leading zero and a value of at most 255
V4FieldOk(f) ==
    /\ Len(f) >= 1
    /\ Len(f) <= 3
    /\ \A k \in 1..Len(f) : IsDigit(f[k])
    /\ (Len(f) > 1 => f[1] # "0")
    /\ DecNum(f) <= 255

parseIPv4Fields(s) ==
    LET fs == SplitOn(s, ".")
    IN  IF Len(fs) = 4 /\ \A k \in 1..4 : V4FieldOk(fs[k])
        THEN [ok |-> TRUE, f |-> [k \in 1..4 |-> DecNum(fs[k])]]
        ELSE [ok |-> FALSE, f |-> <<0, 0, 0, 0>>]

parseIPv4(s) ==
    LET r == parseIPv4Fields(s)
    IN  IF r.ok THEN [ok |-> TRUE, addr |-> AddrFrom4(r.f)] ELSE ParseErr

\* number of leading hexadecimal digits of s
RECURSIVE HexRun(_)
HexRun(s) == IF s # <<>> /\ IsHex(s[1]) THEN 1 + HexRun(Tail(s)) ELSE 0

Zeros(n) == [k \in 1..n |-> 0]

\* the end of parseIPv6: the whole string was used, and the ellipsis expands
\* to at least one group of zeros
V6Finish(s, ip, ell, zone) ==
    LET i == Len(ip)
    IN  IF s # <<>> THEN ParseErr                       \* trailing garbage
        ELSE IF i < 16
        THEN IF ell < 0 THEN ParseErr                   \* address too short
             ELSE [ok |-> TRUE,
                   addr |-> AddrFrom16(SubSeq(ip, 1, ell) \o Zeros(16 - i)
                                       \o SubSeq(ip, ell + 1, i), zone)]
        ELSE IF ell >= 0 THEN ParseErr                  \* :: expands to nothing
        ELSE [ok |-> TRUE, addr |-> AddrFrom16(ip, zone)]

\* the loop of parseIPv6: ip holds the bytes parsed so far, ell the byte
\* position of the ellipsis or -1
RECURSIVE V6Loop(_, _, _, _)
V6Loop(s, ip, ell, zone) ==
    LET i   == Len(ip)
        off == HexRun(s)
    IN  IF i >= 16 THEN V6Finish(s, ip, ell, zone)
        ELSE IF off > 4 THEN ParseErr                   \* more than 4 digits
        ELSE IF off = 0 THEN ParseErr                   \* no digit in the field
        ELSE IF off < Len(s) /\ s[off + 1] = "."
        THEN IF ell < 0 /\ i # 12 THEN ParseErr         \* embedded IPv4 misplaced
             ELSE IF i + 4 > 16 THEN ParseErr
             ELSE LET r == parseIPv4Fields(s)
                  IN  IF r.ok THEN V6Finish(<<>>, ip \o r.f, ell, zone)
                      ELSE ParseErr
        ELSE LET acc == HexNum(SubSeq(s, 1, off))
                 ip2 == ip \o <<acc \div 256, acc % 256>>
                 s2  == Tail_(s, off + 1)
             IN  IF s2 = <<>> THEN V6Finish(s2, ip2, ell, zone)
                 ELSE IF s2[1] # ":" THEN ParseErr      \* want colon
                 ELSE IF Len(s2) = 1 THEN ParseErr      \* colon at the end
                 ELSE IF s2[2] = ":"
                 THEN IF ell >= 0 THEN ParseErr         \* multiple ::
                      ELSE IF Len(s2) = 2
                           THEN V6Finish(<<>>, ip2, Len(ip2), zone)
                           ELSE V6Loop(Tail_(s2, 3), ip2, Len(ip2), zone)
                 ELSE V6Loop(Tail_(s2, 2), ip2, ell, zone)

parseIPv6(in) ==
    LET p    == IndexByte(in, "%")
        s    == IF p = 0 THEN in ELSE SubSeq(in, 1, p - 1)
        zone == IF p = 0 THEN <<>> ELSE Tail_(in, p + 1)
    IN  IF p # 0 /\ zone = <<>> THEN ParseErr           \* empty zone
        ELSE IF Len(s) >= 2 /\ s[1] = ":" /\ s[2] = ":"
        THEN IF Len(s) = 2
             THEN [ok |-> TRUE, addr |-> AddrFrom16(Zeros(16), zone)]
             ELSE V6Loop(Tail_(s, 3), <<>>, 0, zone)
        ELSE V6Loop(s, <<>>, -1, zone)

\* netip.ParseAddr: the first '.', ':' or '%' of s selects the parser
FirstMark(s) ==
    IF \E i \in 1..Len(s) : s[i] \in {".", ":", "%"}
    THEN s[CHOOSE i \in 1..Len(s) :
               /\ s[i] \in {".", ":", "%"}
               /\ \A j \in 1..(i - 1) : s[j] \notin {".", ":", "%"}]
    ELSE ""

ParseAddr(s) ==
    CASE FirstMark(s) = "." -> parseIPv4(s)
      [] FirstMark(s) = ":" -> parseIPv6(s)
      [] OTHER -> ParseErr

Is4(a) == a.z = "z4"

Is6(a) == a.z = "z6"

As4(a) == SubSeq(a.b, 13, 16)

Is4In6(a) == Is6(a) /\ SubSeq(a.b, 1, 12) = V4MappedPrefix

\* dotted-decimal text of four bytes
String4(f) ==
    AppendDecimal(f[1]) \o <<".">> \o AppendDecimal(f[2]) \o <<".">>
        \o AppendDecimal(f[3]) \o <<".">> \o AppendDecimal(f[4])

\* the k-th 16-bit group of an address, k in 0..7
v6u16(a, k) == a.b[2 * k + 1] * 256 + a.b[2 * k + 2]

\* end of the run of zero groups that starts at group i
RECURSIVE ZeroRunEnd(_, _)
ZeroRunEnd(a, j) == IF j < 8 /\ v6u16(a, j) = 0 THEN ZeroRunEnd(a, j + 1) ELSE j

\* the first longest run of at least two zero groups, as <<start, end>>;
\* <<255, 255>> when there is none
RECURSIVE ZeroSpan(_, _, _)
ZeroSpan(a, i, best) ==
    IF i >= 8 THEN best
    ELSE LET j == ZeroRunEnd(a, i)
         IN  IF j - i >= 2 /\ j - i > best[2] - best[1]
             THEN ZeroSpan(a, i + 1, <<i, j>>)
             ELSE ZeroSpan(a, i + 1, best)

RECURSIVE Groups6(_, _, _)
Groups6(a, i, span) ==
    IF i >= 8 THEN <<>>
    ELSE IF i = span[1]
    THEN <<":", ":">> \o (IF span[2] >= 8 THEN <<>>
                          ELSE AppendHex(v6u16(a, span[2]))
                               \o Groups6(a, span[2] + 1, span))
    ELSE (IF i > 0 THEN <<":">> ELSE <<>>)
         \o AppendHex(v6u16(a, i)) \o Groups6(a, i + 1, span)

ZoneSuffix(a) == IF a.zone = <<>> THEN <<>> ELSE <<"%">> \o a.zone

\* netip.Addr.String
AddrString(a) ==
    CASE a.z = "z0" -> <<>>
      [] a.z = "z4" -> String4(As4(a))
      [] OTHER ->
           IF Is4In6(a)
           THEN <<":", ":", "f", "f", "f", "f", ":">> \o String4(As4(a)) \o ZoneSuffix(a)
           ELSE Groups6(a, 0, ZeroSpan(a, 0, <<255, 255>>)) \o ZoneSuffix(a)

(***************************************************************************)
(* Text literals of the server                                             *)
(***************************************************************************)
\* the loopback literals of isLocalhost
Lit127001 ==
    <<"1", "2", "7", ".", "0", ".", "0", ".", "1">>

LitLoop6 ==
    <<":", ":", "1">>

LitLocalhost ==
    <<"l", "o", "c", "a", "l", "h", "o", "s", "t">>

\* the IPv6 prefix tested by isTailscaleIP
TailscalePrefix6 ==
    <<"f", "d", "7", "a", ":", "1", "1", "5", "c", ":", "a", "1", "e", "0",
      ":">>

(***************************************************************************)
(* Remote addresses offered to the server.  net/http sets RemoteAddr to    *)
(* the peer's "IP:port" (net.JoinHostPort); tests and proxies may set any  *)
(* text, so port-less and malformed texts are offered too.                 *)
(***************************************************************************)
TxtPort ==
    <<"8", "0", "8", "0">>

TxtUla ==
    <<"f", "d", "7", "a", ":", "1", "1", "5", "c", ":", "a", "1", "e", "0",
      ":", ":", "1">>

TxtUlaUpper ==
    <<"F", "D", "7", "A", ":", "1", "1", "5", "C", ":", "A", "1", "E", "0",
      ":", ":", "1">>

TxtUlaLong ==
    <<"f", "d", "7", "a", ":", "1", "1", "5", "c", ":", "a", "1", "e", "0",
      ":", "a", "b", "1", "2", ":", "0", ":", "0", ":", "0", ":", "5">>

TxtGlobal6 ==
    <<"2", "0", "0", "1", ":", "d", "b", "8", ":", ":", "1">>

TxtLoop6Long ==
    <<"0", ":", "0", ":", "0", ":", "0", ":", "0", ":", "0", ":", "0", ":",
      "1">>

TxtMappedCgnat ==
    <<":", ":", "f", "f", "f", "f", ":", "1", "0", "0", ".", "6", "4", ".",
      "0", ".", "1">>

TxtMappedPrivate ==
    <<":", ":", "f", "f", "f", "f", ":", "1", "0", ".", "0", ".", "0", ".",
      "5">>

TxtLinkLocalZone ==
    <<"f", "e", "8", "0", ":", ":", "1", "%", "e", "t", "h", "0">>

TxtLocalhostUpper ==
    <<"L", "O", "C", "A", "L", "H", "O", "S", "T">>

TxtHostname ==
    <<"e", "v", "i", "l", ".", "e", "x", "a", "m", "p", "l", "e">>

TxtLeadingZero ==
    <<"1", "0", "0", ".", "0", "6", "4", ".", "0", ".", "1">>

TxtOctetTooBig ==
    <<"1", "0", "0", ".", "2", "5", "6", ".", "0", ".", "1">>

TxtFiveFields ==
    <<"1", "0", "0", ".", "6", "4", ".", "0", ".", "1", ".", "5">>

TxtTrailingDot ==
    <<"1", "0", "0", ".", "6", "4", ".", "0", ".", "1", ".">>

TxtBracketNoPort ==
    <<"[", ":", ":", "1", "]">>

TxtEmptyPort ==
    <<"1", "2", "7", ".", "0", ".", "0", ".", "1", ":">>

TxtEmptyHost ==
    <<":", "8", "0", "8", "0">>

TxtPrefixNoAddr ==
    <<"f", "d", "7", "a", ":", "1", "1", "5", "c", ":", "a", "1", "e", "0",
      ":">>

\* net.JoinHostPort: the text of a peer address with its port
JoinHostPort(host, port) ==
    IF IndexByte(host, ":") # 0
    THEN <<"[">> \o host \o <<"]", ":">> \o port
    ELSE host \o <<":">> \o port

\* the IPv4 peers: both sides of every boundary of 100.64.0.0/10, the
\* loopback block, and private and public addresses
V4Pool ==
    {<<o1, o2, 0, 1>> : o1 \in {99, 100, 101}, o2 \in {0, 63, 64, 100, 127, 128, 192, 255}}
        \cup {<<100, 64, 0, 0>>, <<100, 127, 255, 255>>, <<127, 0, 0, 1>>,
              <<127, 0, 0, 2>>, <<10, 0, 0, 5>>, <<8, 8, 8, 8>>}

V6Texts ==
    {LitLoop6, TxtUla, TxtUlaUpper, TxtUlaLong, TxtGlobal6, TxtLoop6Long,
     TxtMappedCgnat, TxtMappedPrivate, TxtLinkLocalZone}

HostTexts == {String4(f) : f \in V4Pool} \cup V6Texts \cup {LitLocalhost}

OddTexts ==
    {<<>>, TxtLocalhostUpper, TxtHostname, JoinHostPort(TxtHostname, TxtPort),
     TxtLeadingZero, JoinHostPort(TxtLeadingZero, TxtPort), TxtOctetTooBig,
     TxtFiveFields, TxtTrailingDot, TxtBracketNoPort, TxtEmptyPort, TxtEmptyHost,
     TxtPrefixNoAddr}

\* every remote address
AllRemotes ==
    HostTexts \cup {JoinHostPort(h, TxtPort) : h \in HostTexts} \cup OddTexts

\* one remote address per outcome of the gate
FewRemotes ==
    {JoinHostPort(Lit127001, TxtPort), JoinHostPort(String4(<<100, 100, 0, 1>>), TxtPort),
     JoinHostPort(String4(<<8, 8, 8, 8>>), TxtPort)}

(***************************************************************************)
(* The peer roster: Server.lb and the ipnstate.Status it reports           *)
(***************************************************************************)
\* Server.lb == nil
NilBackend == [nil |-> TRUE, hasSelf |-> FALSE, TailscaleIPs |-> {}]

\* a backend whose status has Self == nil (hasSelf FALSE) or Self.TailscaleIPs
Backend(hasSelf, ips) == [nil |-> FALSE, hasSelf |-> hasSelf, TailscaleIPs |-> ips]

\* addresses by their bytes: fd7a:115c:a1e0::1, 2001:db8::1, fe80::1%eth0,
\* ::ffff:10.0.0.5 and ::1
AddrUla ==
    AddrFrom16(<<253, 122, 17, 92, 161, 224, 0, 0, 0, 0, 0, 0, 0, 0, 0, 1>>, <<>>)

AddrGlobal6 ==
    AddrFrom16(<<32, 1, 13, 184, 0, 0, 0, 0, 0, 0, 0, 0, 0, 0, 0, 1>>, <<>>)

AddrLinkLocalZone ==
    AddrFrom16(<<254, 128, 0, 0, 0, 0, 0, 0, 0, 0, 0, 0, 0, 0, 0, 1>>,
               <<"e", "t", "h", "0">>)

AddrMappedPrivate == AddrFrom16(V4MappedPrefix \o <<10, 0, 0, 5>>, <<>>)

AddrLoop6 == AddrFrom16(<<0, 0, 0, 0, 0, 0, 0, 0, 0, 0, 0, 0, 0, 0, 0, 1>>, <<>>)

\* the node's own addresses a status may report
RosterSets ==
    {{},
     {AddrFrom4(<<100, 100, 0, 1>>), AddrUla},
     {AddrFrom4(<<10, 0, 0, 5>>), AddrGlobal6},
     {AddrLinkLocalZone, AddrMappedPrivate}}

Backends == {Backend(FALSE, {})} \cup {Backend(TRUE, ips) : ips \in RosterSets}

(***************************************************************************)
(* isLocalhost, isTailscaleIP and the decision of requireTailscale         *)
(***************************************************************************)
\* isLocalhost knowing the IPv4 literal only
isLocalhost_v4only(ip) == ip = Lit127001

isLocalhost(ip) == ip = Lit127001 \/ ip = LitLoop6 \/ ip = LitLocalhost

\* isTailscaleIP with the upper bound of the block forgotten: every
\* 100.x.y.z with x >= 64 passes
isTailscaleIP_openEnded(addr) ==
    IF Is4(addr)
    THEN LET bytes == As4(addr)
         IN  bytes[1] = 100 /\ bytes[2] >= 64
    ELSE IF Is6(addr)
    THEN HasPrefix(AddrString(addr), TailscalePrefix6)
    ELSE FALSE

isTailscaleIP(addr) ==
    IF Is4(addr)
    THEN LET bytes == As4(addr)
         IN  bytes[1] = 100 /\ BitAnd(bytes[2], 192) = 64
    ELSE IF Is6(addr)
    THEN HasPrefix(AddrString(addr), TailscalePrefix6)
    ELSE FALSE

\* clientIP of requireTailscale: the host of RemoteAddr when it splits, the
\* whole text otherwise
ClientIP(remoteAddr) ==
    LET sp == SplitHostPort(remoteAddr)
    IN  IF sp.err THEN remoteAddr ELSE sp.host

\* the roster test comparing the IPv4 part of the addresses only
IsOwnIP_unmapped(backend, addr) ==
    /\ ~backend.nil
    /\ backend.hasSelf
    /\ \E ip \in backend.TailscaleIPs : As4(ip) = As4(addr)

\* the roster test of requireTailscale: lb, then status.Self, then the loop
\* over status.Self.TailscaleIPs
IsOwnIP(backend, addr) ==
    /\ ~backend.nil
    /\ backend.hasSelf
    /\ \E ip \in backend.TailscaleIPs : ip = addr

\* The decision of the middleware for one request: whether next runs, the
\* status and body written otherwise, and the calls made on the way.
Decide(backend, remoteAddr) ==
    LET clientIP == ClientIP(remoteAddr)
        parsed   == ParseAddr(clientIP)
    IN  IF isLocalhost(clientIP)
        THEN [allow |-> TRUE, reason |-> "localhost", status |-> 0, text |-> "",
              calls |-> <<"isLocalhost">>]
        ELSE IF ~parsed.ok
        THEN [allow |-> FALSE, reason |-> "invalid address", status |-> 403,
              text |-> "Forbidden",
              calls |-> <<"isLocalhost", "ParseAddr", "logf">>]
        ELSE IF isTailscaleIP(parsed.addr)
        THEN [allow |-> TRUE, reason |-> "overlay range", status |-> 0, text |-> "",
              calls |-> <<"isLocalhost", "ParseAddr", "isTailscaleIP">>]
        ELSE IF backend.nil
        THEN [allow |-> FALSE, reason |-> "not a network member", status |-> 403,
              text |-> "Forbidden: Only accessible from Tailscale network",
              calls |-> <<"isLocalhost", "ParseAddr", "isTailscaleIP", "logf">>]
        ELSE IF IsOwnIP(backend, parsed.addr)
        THEN [allow |-> TRUE, reason |-> "own address", status |-> 0, text |-> "",
              calls |-> <<"isLocalhost", "ParseAddr", "isTailscaleIP",
                          "StatusWithoutPeers">>]
        ELSE [allow |-> FALSE, reason |-> "not a network member", status |-> 403,
              text |-> "Forbidden: Only accessible from Tailscale network",
              calls |-> <<"isLocalhost", "ParseAddr", "isTailscaleIP",
                          "StatusWithoutPeers", "logf">>]

(***************************************************************************)
(* Bounds of the model                                                     *)
(***************************************************************************)
\* width in bits of the unsigned counters (uint64 in the source)
UintBits == 10

\* most shutdown goroutines started in one run
MaxShutdowns == 1

\* most calls of getCPUUsage in flight at once
MaxSamplers == 2

\* most calls of getCPUUsage started in one run
MaxCalls == 3

\* most ticks of the host's clock while calls are in flight
MaxTicks == 2

UintMod == 2 ^ UintBits

\* unsigned subtraction and addition at the counters' width
USub(x, y) == (x - y + UintMod) % UintMod

UAdd(x, y) == (x + y) % UintMod

\* a float64 percentage num / den * 100, held in hundredths of a percent
\* (the two decimals the exposition prints)
Percent(num, den) == (num * 10000) \div den

(***************************************************************************)
(* SystemMetrics and the collectors (metrics_linux.go, metrics_darwin.go,  *)
(* metrics_windows.go)                                                     *)
(***************************************************************************)
Platforms == {"linux", "darwin", "windows"}

\* &SystemMetrics{}
ZeroMetrics ==
    [CPUPercent |-> 0, MemoryUsed |-> 0, MemoryTotal |-> 0, MemoryPercent |-> 0,
     DiskUsed |-> 0, DiskTotal |-> 0, DiskPercent |-> 0,
     NetworkBytesSent |-> 0, NetworkBytesRecv |-> 0, UptimeSeconds |-> 0]

\* the zero value of cpuStats (linux) and of cpuTimes (windows); time is 0
\* for the zero time.Time and 1 for a reading of the clock
ZeroCPUStats ==
    [user |-> 0, nice |-> 0, system |-> 0, idle |-> 0, iowait |-> 0, irq |-> 0,
     total |-> 0, time |-> 0]

ZeroCPUTimes == [idle |-> 0, kernel |-> 0, user |-> 0, time |-> 0]

\* What the operating system answers to one collection.  cpu: err, or the
\* counters of the first line of /proc/stat (linux), the three times of
\* GetSystemTimes (windows: idle, kernel, user), or the idle percentage in the
\* output of top, in hundredths (darwin: idle).  mem, disk: err or used and
\* total.  net: err or sent and recv.  up: err or seconds.
CPUReads ==
    {[err |-> FALSE, user |-> u, nice |-> 0, system |-> 10, idle |-> i, iowait |-> 0,
      irq |-> 0, kernel |-> i + 100] : u \in {100, 150}, i \in {200, 250}}

CPUFail ==
    [err |-> TRUE, user |-> 0, nice |-> 0, system |-> 0, idle |-> 0, iowait |-> 0,
     irq |-> 0, kernel |-> 0]

TopReads ==
    {[err |-> FALSE, user |-> 0, nice |-> 0, system |-> 0, idle |-> i, iowait |-> 0,
      irq |-> 0, kernel |-> 0] : i \in {9073, 5000}}

PairReads(vals) ==
    {[err |-> TRUE, a |-> 0, b |-> 0]} \cup {[err |-> FALSE, a |-> v[1], b |-> v[2]] : v \in vals}

MemReads == PairReads({<<512, 1000>>, <<0, 0>>})

DiskReads == PairReads({<<250, 1000>>})

NetReads == PairReads({<<700, 900>>})

UpReads == PairReads({<<3600, 0>>})

CPUReadsOf(os) == {CPUFail} \cup (IF os = "darwin" THEN TopReads ELSE CPUReads)

Envs(os) ==
    [cpu : CPUReadsOf(os), mem : MemReads, disk : DiskReads, net : NetReads, up : UpReads]

\* used and total as the memory query can return them: zero, small, equal,
\* a total of zero with and without a used amount, and a used amount wrapped
\* below zero (total - available with available above total)
MemPairs ==
    {<<u, t>> : u \in {0, 1, 512, 1000, UintMod - 24}, t \in {0, 1, 1000}}

DiskPairs == {<<0, 0>>, <<7, 0>>, <<250, 1000>>, <<1000, 1000>>}

\* the answers of a host whose memory and disk queries vary
UsageEnvs ==
    [cpu : {CPUFail}, mem : PairReads(MemPairs), disk : PairReads(DiskPairs),
     net : {[err |-> FALSE, a |-> 700, b |-> 900]}, up : {[err |-> FALSE, a |-> 3600, b |-> 0]}]

\* counters that go up, stay, and go down from one reading to the next
CounterReads ==
    {[err |-> FALSE, user |-> u, nice |-> 0, system |-> 10, idle |-> i, iowait |-> 0,
      irq |-> 0, kernel |-> i + 100] : u \in {100, 150, 250}, i \in {200, 250}}

\* the answers of a host whose CPU counters vary
CounterEnvs(os) ==
    [cpu : IF os = "darwin" THEN TopReads ELSE CounterReads,
     mem : {[err |-> FALSE, a |-> 512, b |-> 1000]},
     disk : {[err |-> FALSE, a |-> 250, b |-> 1000]},
     net : {[err |-> FALSE, a |-> 700, b |-> 900]},
     up : {[err |-> FALSE, a |-> 3600, b |-> 0], [err |-> FALSE, a |-> 3601, b |-> 0]}]

\* the answers of a host in a steady state
SteadyEnv ==
    [cpu |-> [err |-> FALSE, user |-> 100, nice |-> 0, system |-> 10, idle |-> 200,
              iowait |-> 0, irq |-> 0, kernel |-> 300],
     mem |-> [err |-> FALSE, a |-> 512, b |-> 1000],
     disk |-> [err |-> FALSE, a |-> 250, b |-> 1000],
     net |-> [err |-> FALSE, a |-> 700, b |-> 900],
     up |-> [err |-> FALSE, a |-> 3600, b |-> 0]]

\* no answer at all, for requests that make no collection
QuietEnv ==
    [cpu |-> CPUFail, mem |-> [err |-> TRUE, a |-> 0, b |-> 0],
     disk |-> [err |-> TRUE, a |-> 0, b |-> 0], net |-> [err |-> TRUE, a |-> 0, b |-> 0],
     up |-> [err |-> TRUE, a |-> 0, b |-> 0]]

\* getCPUUsage of metrics_linux.go: the reading, the stored sample before the
\* call; the result is the percentage, the error and the stored sample after
LinuxStats(rd) ==
    [user |-> rd.user, nice |-> rd.nice, system |-> rd.system, idle |-> rd.idle,
     iowait |-> rd.iowait, irq |-> rd.irq,
     total |-> UAdd(UAdd(UAdd(UAdd(UAdd(rd.user, rd.nice), rd.system), rd.idle),
                         rd.iowait), rd.irq),
     time |-> 1]

\* getCPUUsage without the test for a stored sample
getCPUUsageLinux_noFirstCall(rd, last) ==
    IF rd.err THEN [usage |-> 0, err |-> TRUE, last |-> last]
    ELSE LET stats      == LinuxStats(rd)
             totalDelta == USub(stats.total, last.total)
             idleDelta  == USub(stats.idle, last.idle)
         IN  IF totalDelta > 0
             THEN [usage |-> Percent(USub(totalDelta, idleDelta), totalDelta),
                   err |-> FALSE, last |-> stats]
             ELSE [usage |-> 0, err |-> FALSE, last |-> stats]

getCPUUsageLinux(rd, last) ==
    IF rd.err THEN [usage |-> 0, err |-> TRUE, last |-> last]
    ELSE LET stats      == LinuxStats(rd)
             totalDelta == USub(stats.total, last.total)
             idleDelta  == USub(stats.idle, last.idle)
         IN  IF last.total > 0 /\ totalDelta > 0
             THEN [usage |-> Percent(USub(totalDelta, idleDelta), totalDelta),
                   err |-> FALSE, last |-> stats]
             ELSE [usage |-> 0, err |-> FALSE, last |-> stats]

\* getCPUUsage of metrics_windows.go
getCPUUsageWindows(rd, last) ==
    IF rd.err THEN [usage |-> 0, err |-> TRUE, last |-> last]
    ELSE LET now == [idle |-> rd.idle, kernel |-> rd.kernel, user |-> rd.user, time |-> 1]
             idleDelta   == USub(rd.idle, last.idle)
             kernelDelta == USub(rd.kernel, last.kernel)
             userDelta   == USub(rd.user, last.user)
             totalDelta  == UAdd(kernelDelta, userDelta)
         IN  IF last.time = 0
             THEN [usage |-> 0, err |-> FALSE, last |-> now]
             ELSE [usage |-> IF totalDelta > 0
                             THEN Percent(USub(totalDelta, idleDelta), totalDelta)
                             ELSE 0,
                   err |-> FALSE, last |-> now]

\* getCPUUsage of metrics_darwin.go: 100 - idle of the helper's own sample;
\* no sample is stored
getCPUUsageDarwin(rd) ==
    IF rd.err THEN [usage |-> 0, err |-> TRUE]
    ELSE [usage |-> 10000 - rd.idle, err |-> FALSE]

\* getCPUUsage of the build for os
getCPUUsage(os, rd, lastStats, lastTimes) ==
    CASE os = "linux" ->
           LET r == getCPUUsageLinux(rd, lastStats)
           IN  [usage |-> r.usage, err |-> r.err, lastCPUStats |-> r.last,
                lastCPUTimes |-> lastTimes]
      [] os = "windows" ->
           LET r == getCPUUsageWindows(rd, lastTimes)
           IN  [usage |-> r.usage, err |-> r.err, lastCPUStats |-> lastStats,
                lastCPUTimes |-> r.last]
      [] OTHER ->
           LET r == getCPUUsageDarwin(rd)
           IN  [usage |-> r.usage, err |-> r.err, lastCPUStats |-> lastStats,
                lastCPUTimes |-> lastTimes]

\* the memory (and disk) fields computed without the test of the total: the
\* float64 division by zero gives NaN or +Inf, written -1 here
UsageFields_unguarded(rd) ==
    IF rd.err THEN <<0, 0, 0>>
    ELSE <<rd.a, rd.b, IF rd.b # 0 THEN Percent(rd.a, rd.b) ELSE -1>>

\* the memory (and disk) fields of getSystemMetrics: used, total, percent
UsageFields(rd) ==
    IF rd.err THEN <<0, 0, 0>>
    ELSE <<rd.a, rd.b, IF rd.b > 0 THEN Percent(rd.a, rd.b) ELSE 0>>

\* the network fields of getSystemMetrics; the windows build makes no query
\* and sets both to 0
NetworkFields(os, rd) ==
    IF os = "windows" \/ rd.err THEN <<0, 0>> ELSE <<rd.a, rd.b>>

\* getSystemMetrics handing on the error of the CPU measurement
CollectError_cpu(cpuErr, memErr, diskErr, netErr, upErr) == cpuErr

\* the error getSystemMetrics returns: nil in every build
CollectError(cpuErr, memErr, diskErr, netErr, upErr) == FALSE

\* getSystemMetrics: every sub-measurement in turn, a failed one leaving its
\* fields at zero
getSystemMetrics(os, env, lastStats, lastTimes) ==
    LET cpu  == getCPUUsage(os, env.cpu, lastStats, lastTimes)
        mem  == UsageFields(env.mem)
        disk == UsageFields(env.disk)
        net  == NetworkFields(os, env.net)
    IN  [metrics |->
             [CPUPercent |-> IF cpu.err THEN 0 ELSE cpu.usage,
              MemoryUsed |-> mem[1], MemoryTotal |-> mem[2], MemoryPercent |-> mem[3],
              DiskUsed |-> disk[1], DiskTotal |-> disk[2], DiskPercent |-> disk[3],
              NetworkBytesSent |-> net[1], NetworkBytesRecv |-> net[2],
              UptimeSeconds |-> IF env.up.err THEN 0 ELSE env.up.a],
         err |-> CollectError(cpu.err, env.mem.err, env.disk.err, env.net.err, env.up.err),
         lastCPUStats |-> cpu.lastCPUStats,
         lastCPUTimes |-> cpu.lastCPUTimes]

(***************************************************************************)
(* The shutdown actuator (shutdown_linux.go, shutdown_darwin.go,           *)
(* shutdown_windows.go), one goroutine per admitted POST /shutdown         *)
(***************************************************************************)
\* the command of the primary mechanism
PrimaryCmd(os, force) ==
    CASE os = "linux"  -> IF force THEN "systemctl poweroff -i --force" ELSE "shutdown -h +1"
      [] os = "darwin" -> IF force THEN "sudo shutdown -h now" ELSE "sudo shutdown -h +1"
      [] OTHER         -> IF force THEN "ExitWindowsEx(EWX_POWEROFF|EWX_FORCE)"
                          ELSE "ExitWindowsEx(EWX_POWEROFF)"

\* the command of the fallback mechanism (linux only)
FallbackCmd(force) == IF force THEN "shutdown -h now" ELSE "systemctl poweroff"

\* whether the build tries a second mechanism after a failed primary
HasFallback(os) == os = "linux"

\* the calls the windows build makes before ExitWindowsEx, each of which
\* ends the actuator with its error when it fails
WindowsSetup == <<"OpenProcessToken", "LookupPrivilegeValue", "AdjustTokenPrivileges">>

\* what a started command does to the machine: a delayed power-off is
\* scheduled, any other takes the machine down
PowerAfter(cmd, power) ==
    IF cmd \in {"shutdown -h +1", "sudo shutdown -h +1"}
    THEN (IF power = "off" THEN "off" ELSE "halting")
    ELSE "off"

\* ShutdownSystem(force) called by the handler itself, which returns from
\* the sleep before it goes on
NewTask_waited(force) ==
    [force |-> force, pc |-> "primary", slept |-> TRUE, ran |-> <<>>, err |-> {},
     sent |-> FALSE]

\* a goroutine running ShutdownSystem(force): pc is "sleep" (in time.Sleep),
\* "primary", "fallback" or "done"; ran lists the platform calls issued, in
\* order, with their outcome; err is the set of the errors in the value
\* returned ({} for nil); sent tells whether the response of the request had
\* been flushed when the goroutine was started
NewTask(force) ==
    [force |-> force, pc |-> "sleep", slept |-> FALSE, ran |-> <<>>, err |-> {},
     sent |-> FALSE]

\* the error returned when the primary failed and the fallback failed too:
\* the fallback's cmd.Run() error alone
BothFailedErr == {"fallback"}

(***************************************************************************)
(* State                                                                   *)
(***************************************************************************)
VARIABLES
    goos,          \* the platform the daemon was built for
    lb,            \* Server.lb with the status it currently reports
    lastCPUStats,  \* metrics_linux.go: the stored sample
    lastCPUTimes,  \* metrics_windows.go: the stored sample
    req,           \* the request served last; seq is its serial number modulo 2
    resp,          \* the response to it
    tasks,         \* the goroutines started by handleShutdown
    power,         \* the machine: "on", "halting" (power-off scheduled), "off"
    samplers       \* the calls of getCPUUsage in flight, statement by statement

vars == <<goos, lb, lastCPUStats, lastCPUTimes, req, resp, tasks, power, samplers>>

Paths == {"/", "/metrics", "/shutdown", "/status"}

Methods == {"GET", "POST", "HEAD"}

\* the values of the query parameter force, in the order of the query string
Queries ==
    {<<>>, <<"true">>, <<"TRUE">>, <<"True">>, <<"1">>, <<"false">>, <<"">>,
     <<"false", "true">>, <<"true", "false">>}

\* url.Values.Get: the first value of the key, "" when there is none
QueryGet(q) == IF q = <<>> THEN "" ELSE q[1]

\* the mux with handleShutdown registered on the catch-all pattern
Route_shutdownDefault(path) ==
    CASE path = "/metrics" -> "handleMetrics"
      [] path = "/"        -> "handleRoot"
      [] OTHER             -> "handleShutdown"

\* the patterns registered by Server.Start: "/metrics" and "/shutdown" match
\* that path alone, "/" matches every other path
Route(path) ==
    CASE path = "/metrics"  -> "handleMetrics"
      [] path = "/shutdown" -> "handleShutdown"
      [] OTHER              -> "handleRoot"

NoRequest ==
    [seq |-> 0, remote |-> <<>>, path |-> "", method |-> "", query |-> <<>>,
     env |-> QuietEnv, hostnameErr |-> FALSE]

\* a response: status and body text, the mode named in a shutdown body, the
\* hostname of a root body, the metrics of a metrics body, whether and why
\* the gate admitted the request, and the calls made while serving it
Reply(status, text, gate, calls) ==
    [status |-> status, text |-> text, mode |-> "", hostname |-> "",
     metrics |-> ZeroMetrics, allow |-> gate.allow, reason |-> gate.reason,
     calls |-> gate.calls \o calls]

NoResponse ==
    [status |-> 0, text |-> "", mode |-> "", hostname |-> "", metrics |-> ZeroMetrics,
     allow |-> FALSE, reason |-> "", calls |-> <<>>]

\* a call of getCPUUsage (linux) in flight: pc is the statement it is at;
\* stats is its own snapshot; lastTotal and lastIdle are the values it loaded
\* from lastCPUStats; compared tells whether it computed a delta; usage is
\* what it returns
NoSampler ==
    [pc |-> "idle", stats |-> ZeroCPUStats, lastTotal |-> 0, lastIdle |-> 0,
     totalDelta |-> 0, compared |-> FALSE, usage |-> 0, rest |-> ""]

\* tick is the time of the host, started the number of calls made so far;
\* no call is in flight
NoSamplers == [tick |-> 0, started |-> 0, g |-> [i \in 1..MaxSamplers |-> NoSampler]]

Init ==
    /\ goos \in Platforms
    /\ lb = NilBackend
    /\ lastCPUStats = ZeroCPUStats
    /\ lastCPUTimes = ZeroCPUTimes
    /\ req = NoRequest
    /\ resp = NoResponse
    /\ tasks = <<>>
    /\ power = "on"
    /\ samplers = NoSamplers

(***************************************************************************)
(* Handlers                                                                *)
(***************************************************************************)
\* handleRoot
handleRoot(rq, gate) ==
    /\ resp' = IF rq.method # "GET"
               THEN Reply(405, "Method not allowed", gate, <<"handleRoot">>)
               ELSE [Reply(200, "hostname: ", gate, <<"handleRoot", "os.Hostname", "Fprintf">>)
                        EXCEPT !.hostname = IF rq.hostnameErr THEN "unknown" ELSE "host"]
    /\ UNCHANGED <<lastCPUStats, lastCPUTimes, tasks>>

\* handleMetrics without its method check
handleMetrics_anyMethod(rq, gate) ==
    LET m == getSystemMetrics(goos, rq.env, lastCPUStats, lastCPUTimes)
    IN  /\ resp' = [Reply(200, "metrics", gate,
                          <<"handleMetrics", "GetSystemMetrics", "Fprintf">>)
                       EXCEPT !.metrics = m.metrics]
        /\ lastCPUStats' = m.lastCPUStats
        /\ lastCPUTimes' = m.lastCPUTimes
        /\ UNCHANGED tasks

\* handleMetrics
handleMetrics(rq, gate) ==
    IF rq.method # "GET"
    THEN /\ resp' = Reply(405, "Method not allowed", gate, <<"handleMetrics">>)
         /\ UNCHANGED <<lastCPUStats, lastCPUTimes, tasks>>
    ELSE LET m == getSystemMetrics(goos, rq.env, lastCPUStats, lastCPUTimes)
         IN  /\ resp' = IF m.err
                        THEN Reply(500, "Failed to get metrics", gate,
                                   <<"handleMetrics", "GetSystemMetrics", "logf">>)
                        ELSE [Reply(200, "metrics", gate,
                                    <<"handleMetrics", "GetSystemMetrics", "Fprintf">>)
                                 EXCEPT !.metrics = m.metrics]
             /\ lastCPUStats' = m.lastCPUStats
             /\ lastCPUTimes' = m.lastCPUTimes
             /\ UNCHANGED tasks

\* handleShutdown starting the goroutine before it writes the body
ShutdownBody_goFirst == <<"logf", "go ShutdownSystem", "Fprintf", "Flush">>

\* the statements of handleShutdown after the method check, in order
ShutdownBody == <<"logf", "Fprintf", "Flush", "go ShutdownSystem">>

\* Runs the statements st on the response writer w = [written, flushed] and
\* the goroutines ts: Fprintf buffers the body, Flush sends what is buffered,
\* go starts the actuator, which records what had been sent when it started.
RECURSIVE RunStatements(_, _, _, _)
RunStatements(st, w, ts, force) ==
    IF st = <<>> THEN [w |-> w, tasks |-> ts]
    ELSE CASE Head(st) = "Fprintf" ->
                RunStatements(Tail(st), [w EXCEPT !.written = TRUE], ts, force)
           [] Head(st) = "Flush" ->
                RunStatements(Tail(st), [w EXCEPT !.flushed = w.written], ts, force)
           [] Head(st) = "go ShutdownSystem" ->
                RunStatements(Tail(st), w,
                              Append(ts, [NewTask(force) EXCEPT !.sent = w.flushed]), force)
           [] OTHER -> RunStatements(Tail(st), w, ts, force)

\* the force flag read as a boolean in any of its spellings
ForceFlag_anySpelling(query) == QueryGet(query) \in {"true", "TRUE", "True", "1"}

\* the force flag of handleShutdown
ForceFlag(query) == QueryGet(query) = "true"

\* handleShutdown
handleShutdown(rq, gate) ==
    IF rq.method # "POST"
    THEN /\ resp' = Reply(405, "Method not allowed (use POST)", gate, <<"handleShutdown">>)
         /\ UNCHANGED <<lastCPUStats, lastCPUTimes, tasks>>
    ELSE LET force        == ForceFlag(rq.query)
             shutdownType == IF force THEN "forced" ELSE "graceful"
             run == RunStatements(ShutdownBody, [written |-> FALSE, flushed |-> FALSE],
                                  tasks, force)
         IN  /\ Len(tasks) < MaxShutdowns
             /\ resp' = [Reply(200, "Shutdown initiated", gate,
                               <<"handleShutdown">> \o ShutdownBody)
                            EXCEPT !.mode = shutdownType]
             /\ tasks' = run.tasks
             /\ UNCHANGED <<lastCPUStats, lastCPUTimes>>

(***************************************************************************)
(* Actions                                                                 *)
(***************************************************************************)
\* the middleware with the return after http.Error forgotten
RunsNext_always(gate) == TRUE

\* the middleware keeping the decision it took for the client's last request
RunsNext_cached(gate) == IF req.method = "" THEN gate.allow ELSE resp.allow

\* whether the middleware runs next: on its three admitting branches only;
\* each denying branch returns after http.Error
RunsNext(gate) == gate.allow

\* One request through the mux and requireTailscale into its handler.  The
\* request is drawn from remotes, paths and methods; the query, the answers
\* of the operating system and the outcome of os.Hostname are drawn where
\* the handler reads them.
ServeHTTP(remotes, paths, methods, queries, envs) ==
    /\ power # "off"
    /\ \E remote \in remotes :
       LET gate == Decide(lb, remote)
       IN  \E path \in paths, method \in methods :
         LET rq   == [seq |-> 1 - req.seq, remote |-> remote, path |-> path,
                      method |-> method, query |-> <<>>, env |-> QuietEnv,
                      hostnameErr |-> FALSE]
         IN  IF ~RunsNext(gate)
             THEN /\ req' = rq
                  /\ resp' = Reply(gate.status, gate.text, gate, <<"http.Error">>)
                  /\ UNCHANGED <<lastCPUStats, lastCPUTimes, tasks>>
             ELSE CASE Route(path) = "handleMetrics" ->
                         \E env \in (IF method = "GET" THEN envs ELSE {QuietEnv}) :
                            /\ req' = [rq EXCEPT !.env = env]
                            /\ handleMetrics(req', gate)
                    [] Route(path) = "handleShutdown" ->
                         \E q \in (IF method = "POST" THEN queries ELSE {<<>>}) :
                            /\ req' = [rq EXCEPT !.query = q]
                            /\ handleShutdown(req', gate)
                    [] OTHER ->
                         \E he \in (IF method = "GET" THEN BOOLEAN ELSE {FALSE}) :
                            /\ req' = [rq EXCEPT !.hostnameErr = he]
                            /\ handleRoot(req', gate)
    /\ UNCHANGED <<goos, lb, power, samplers>>

\* SetLocalBackend(lb), with a nil or a live backend
SetLocalBackend ==
    /\ power # "off"
    /\ \E b \in Backends \cup {NilBackend} : lb' = b
    /\ UNCHANGED <<goos, lastCPUStats, lastCPUTimes, req, resp, tasks, power, samplers>>

\* the status reported by the installed backend changes
StatusChange ==
    /\ power # "off"
    /\ ~lb.nil
    /\ \E b \in Backends : lb' = b
    /\ UNCHANGED <<goos, lastCPUStats, lastCPUTimes, req, resp, tasks, power, samplers>>

\* time.Sleep(100 * time.Millisecond) of shutdownSystem returns
TaskSleep ==
    /\ power # "off"
    /\ \E i \in 1..Len(tasks) :
         /\ tasks[i].pc = "sleep"
         /\ tasks' = [tasks EXCEPT ![i].pc = "primary", ![i].slept = TRUE]
    /\ UNCHANGED <<goos, lb, lastCPUStats, lastCPUTimes, req, resp, power, samplers>>

\* the calls of the windows build up to a failure at call failAt (1..3 a
\* setup call, 4 ExitWindowsEx, 0 none)
WindowsCalls(force, failAt) ==
    LET n == IF failAt = 0 THEN 4 ELSE failAt
    IN  [k \in 1..n |->
            [cmd |-> IF k <= 3 THEN WindowsSetup[k] ELSE PrimaryCmd("windows", force),
             ok |-> k # failAt]]

\* the primary mechanism of shutdownSystem runs and returns
TaskPrimary ==
    /\ power # "off"
    /\ \E i \in 1..Len(tasks) :
         LET t == tasks[i]
         IN  /\ t.pc = "primary"
             /\ IF goos = "windows"
                THEN \E failAt \in 0..4 :
                       /\ tasks' = [tasks EXCEPT
                              ![i].ran = t.ran \o WindowsCalls(t.force, failAt),
                              ![i].pc = "done",
                              ![i].err = IF failAt = 0 THEN {} ELSE {"primary"}]
                       /\ power' = IF failAt = 0
                                   THEN PowerAfter(PrimaryCmd(goos, t.force), power)
                                   ELSE power
                ELSE \E ok \in BOOLEAN :
                       /\ tasks' = [tasks EXCEPT
                              ![i].ran = Append(t.ran, [cmd |-> PrimaryCmd(goos, t.force),
                                                        ok |-> ok]),
                              ![i].pc = IF ~ok /\ HasFallback(goos) THEN "fallback"
                                        ELSE "done",
                              ![i].err = IF ok \/ HasFallback(goos) THEN {} ELSE {"primary"}]
                       /\ power' = IF ok THEN PowerAfter(PrimaryCmd(goos, t.force), power)
                                   ELSE power
    /\ UNCHANGED <<goos, lb, lastCPUStats, lastCPUTimes, req, resp, samplers>>

\* the fallback mechanism of shutdownSystem (linux) runs and returns
TaskFallback ==
    /\ power # "off"
    /\ \E i \in 1..Len(tasks) :
         LET t == tasks[i]
         IN  /\ t.pc = "fallback"
             /\ \E ok \in BOOLEAN :
                  /\ tasks' = [tasks EXCEPT
                         ![i].ran = Append(t.ran, [cmd |-> FallbackCmd(t.force), ok |-> ok]),
                         ![i].pc = "done",
                         ![i].err = IF ok THEN {} ELSE BothFailedErr]
                  /\ power' = IF ok THEN PowerAfter(FallbackCmd(t.force), power) ELSE power
    /\ UNCHANGED <<goos, lb, lastCPUStats, lastCPUTimes, req, resp, samplers>>

\* the grace window of a scheduled power-off ends
Halt ==
    /\ power = "halting"
    /\ power' = "off"
    /\ UNCHANGED <<goos, lb, lastCPUStats, lastCPUTimes, req, resp, tasks, samplers>>

(***************************************************************************)
(* getCPUUsage (metrics_linux.go) statement by statement, for the calls    *)
(* that concurrent GET /metrics requests make from their own goroutines.   *)
(* lastCPUStats is a package variable read and written without a lock.    *)
(***************************************************************************)
\* the first line of /proc/stat at tick k: every tick adds 50 to user and 50
\* to idle
ProcStat(k) ==
    [err |-> FALSE, user |-> 100 + 50 * k, nice |-> 0, system |-> 10, idle |-> 200 + 50 * k,
     iowait |-> 0, irq |-> 0, kernel |-> 0]

\* the snapshot built from it; time.Now() is the tick, counted from 1
StatsAt(k) == [LinuxStats(ProcStat(k)) EXCEPT !.time = k + 1]

\* the other actions leave these alone
RaceFrame == UNCHANGED <<goos, lb, lastCPUTimes, req, resp, tasks, power>>

SetSampler(i, r) == samplers' = [samplers EXCEPT !.g[i] = r]

\* the clock of the host advances
ClockTick ==
    /\ samplers.tick < MaxTicks
    /\ samplers' = [samplers EXCEPT !.tick = samplers.tick + 1]
    /\ UNCHANGED lastCPUStats
    /\ RaceFrame

\* handleMetrics of an admitted GET /metrics calls getCPUUsage
CallGetCPUUsage ==
    /\ samplers.started < MaxCalls
    /\ \E i \in 1..MaxSamplers :
         /\ samplers.g[i].pc = "idle"
         /\ samplers' = [samplers EXCEPT !.g[i] = [NoSampler EXCEPT !.pc = "read"],
                                         !.started = samplers.started + 1]
    /\ UNCHANGED lastCPUStats
    /\ RaceFrame

\* the call reads /proc/stat and builds stats
ReadProcStat ==
    /\ \E i \in 1..MaxSamplers :
         /\ samplers.g[i].pc = "read"
         /\ SetSampler(i, [samplers.g[i] EXCEPT !.pc = "test",
                                                !.stats = StatsAt(samplers.tick)])
    /\ UNCHANGED lastCPUStats
    /\ RaceFrame

\* if lastCPUStats.total > 0
TestLastTotal ==
    /\ \E i \in 1..MaxSamplers :
         /\ samplers.g[i].pc = "test"
         /\ SetSampler(i, [samplers.g[i] EXCEPT
                              !.pc = IF lastCPUStats.total > 0 THEN "loadTotal" ELSE "store"])
    /\ UNCHANGED lastCPUStats
    /\ RaceFrame

\* totalDelta := stats.total - lastCPUStats.total
LoadLastTotal ==
    /\ \E i \in 1..MaxSamplers :
         LET c == samplers.g[i]
         IN  /\ c.pc = "loadTotal"
             /\ SetSampler(i, [c EXCEPT !.pc = "loadIdle",
                                        !.lastTotal = lastCPUStats.total,
                                        !.totalDelta = USub(c.stats.total, lastCPUStats.total)])
    /\ UNCHANGED lastCPUStats
    /\ RaceFrame

\* idleDelta := stats.idle - lastCPUStats.idle; if totalDelta > 0 the usage
\* is computed
LoadLastIdle ==
    /\ \E i \in 1..MaxSamplers :
         LET c         == samplers.g[i]
             idleDelta == USub(c.stats.idle, lastCPUStats.idle)
         IN  /\ c.pc = "loadIdle"
             /\ SetSampler(i, [c EXCEPT
                    !.pc = "store",
                    !.lastIdle = lastCPUStats.idle,
                    !.compared = TRUE,
                    !.usage = IF c.totalDelta > 0
                              THEN Percent(USub(c.totalDelta, idleDelta), c.totalDelta)
                              ELSE 0])
    /\ UNCHANGED lastCPUStats
    /\ RaceFrame

\* the counters of snapshot st written over sample last, and its total and
\* time written over it
WithCounters(last, st) == [st EXCEPT !.total = last.total, !.time = last.time]

WithTotal(last, st) == [last EXCEPT !.total = st.total, !.time = st.time]

\* lastCPUStats = stats: a copy of several words that is not atomic; either
\* part of the struct may be written first
StoreSample ==
    /\ \E i \in 1..MaxSamplers :
         LET c == samplers.g[i]
         IN  /\ c.pc = "store"
             /\ \E first \in {"counters", "total"} :
                  /\ lastCPUStats' = IF first = "counters"
                                     THEN WithCounters(lastCPUStats, c.stats)
                                     ELSE WithTotal(lastCPUStats, c.stats)
                  /\ SetSampler(i, [c EXCEPT !.pc = "storeRest",
                                             !.rest = IF first = "counters" THEN "total"
                                                      ELSE "counters"])
    /\ RaceFrame

\* the rest of the copy
StoreSampleRest ==
    /\ \E i \in 1..MaxSamplers :
         LET c == samplers.g[i]
         IN  /\ c.pc = "storeRest"
             /\ lastCPUStats' = IF c.rest = "counters"
                                THEN WithCounters(lastCPUStats, c.stats)
                                ELSE WithTotal(lastCPUStats, c.stats)
             /\ SetSampler(i, [c EXCEPT !.pc = "done", !.rest = ""])
    /\ RaceFrame

\* return usage, nil
ReturnUsage ==
    /\ \E i \in 1..MaxSamplers :
         /\ samplers.g[i].pc = "done"
         /\ SetSampler(i, NoSampler)
    /\ UNCHANGED lastCPUStats
    /\ RaceFrame

(***************************************************************************)
(* Specifications                                                          *)
(***************************************************************************)
\* the peers of a run that follows one client: any peer first, the same peer
\* afterwards
SameClient == IF req.method = "" THEN AllRemotes ELSE {req.remote}

\* requests of one client from any remote address, on every route, on a host
\* in a steady state, while the roster comes and goes
ServeAny ==
    ServeHTTP(SameClient, {"/", "/metrics", "/shutdown"}, {"GET", "POST"}, {<<>>},
              {SteadyEnv})

Next == ServeAny \/ SetLocalBackend \/ StatusChange

\* the gate and the mux are the same in every build: the linux build stands
\* for them here
InitGate == Init /\ goos = "linux"

Spec == InitGate /\ [][Next]_vars

\* metrics requests of several clients under every answer of the operating
\* system
ServeMeasured == ServeHTTP(FewRemotes, {"/metrics"}, {"GET", "POST"}, {<<>>}, Envs(goos))

NextMetrics == ServeMeasured

SpecMetrics == Init /\ [][NextMetrics]_vars

\* shutdown requests of several clients under every query, with the
\* goroutines they start
ServeQueried == ServeHTTP(FewRemotes, {"/shutdown"}, {"GET", "POST"}, Queries, {QuietEnv})

NextShutdown == ServeQueried \/ TaskSleep \/ TaskPrimary \/ TaskFallback \/ Halt

SpecShutdown == Init /\ [][NextShutdown]_vars

\* requests of several clients on every path and with every method
ServeRouted ==
    ServeHTTP(FewRemotes, Paths, Methods, {<<>>, <<"true">>}, {SteadyEnv})

NextRoutes == ServeRouted

SpecRoutes == Init /\ [][NextRoutes]_vars

\* metrics requests of a local client while the memory and disk queries vary
ServeUsage ==
    ServeHTTP({JoinHostPort(Lit127001, TxtPort)}, {"/metrics"}, {"GET"}, {<<>>}, UsageEnvs)

NextUsage == ServeUsage

SpecUsage == Init /\ [][NextUsage]_vars

\* concurrent metrics requests of the linux build inside getCPUUsage
NextRace ==
    \/ ClockTick
    \/ CallGetCPUUsage
    \/ ReadProcStat
    \/ TestLastTotal
    \/ LoadLastTotal
    \/ LoadLastIdle
    \/ StoreSample
    \/ StoreSampleRest
    \/ ReturnUsage

SpecRace == InitGate /\ [][NextRace]_vars

\* metrics requests of a local client while the CPU counters vary
ServeCounted ==
    ServeHTTP({JoinHostPort(Lit127001, TxtPort)}, {"/metrics"}, {"GET"}, {<<>>},
              CounterEnvs(goos))

NextCounters == ServeCounted

SpecCounters == Init /\ [][NextCounters]_vars

(***************************************************************************)
(* Properties of the access gate                                           *)
(***************************************************************************)
\* the step serves a request
Served == req'.seq # req.seq

\* r is the text of the IPv4 address f, with or without a port
IsV4Remote(r, f) == r = String4(f) \/ r = JoinHostPort(String4(f), TxtPort)

\* f lies in 100.64.0.0 - 100.127.255.255
InCgnat(f) == f[1] = 100 /\ f[2] >= 64 /\ f[2] <= 127

\* the calls that only a handler makes
HandlerCalls ==
    {"handleRoot", "handleMetrics", "handleShutdown", "os.Hostname", "GetSystemMetrics",
     "Fprintf", "Flush", "go ShutdownSystem"}

NoHandlerRan(r) == \A k \in 1..Len(r.calls) : r.calls[k] \notin HandlerCalls

\* the request was let through to its handler
Admitted(r) == r.allow /\ r.status # 403 /\ ~NoHandlerRan(r)

\* the request was stopped by the gate
Denied(r) == ~r.allow /\ r.status = 403 /\ NoHandlerRan(r)

C2_DeniedRunsNothing ==
    [][(Served /\ ~resp'.allow) =>
          /\ req'.path \in {"/", "/metrics", "/shutdown"}
          /\ resp'.status = 403
          /\ NoHandlerRan(resp')
          /\ tasks' = tasks
          /\ lastCPUStats' = lastCPUStats
          /\ lastCPUTimes' = lastCPUTimes]_vars

\* a denied request for the metrics after a sample has been stored
C2_Witness ==
    /\ Denied(resp)
    /\ req.path = "/metrics"
    /\ lastCPUStats # ZeroCPUStats

\* the remote addresses whose host, once the port is stripped, is a loopback
\* literal
LoopbackRemotes ==
    {Lit127001, JoinHostPort(Lit127001, TxtPort), TxtEmptyPort,
     LitLoop6, JoinHostPort(LitLoop6, TxtPort),
     LitLocalhost, JoinHostPort(LitLocalhost, TxtPort)}

\* C3: a request whose host is exactly 127.0.0.1, ::1 or localhost is
\* admitted under every roster, and the roster is not queried.
C3_LoopbackAlwaysAdmitted ==
    [][(Served /\ req'.remote \in LoopbackRemotes) =>
          /\ Admitted(resp')
          /\ \A k \in 1..Len(resp'.calls) : resp'.calls[k] # "StatusWithoutPeers"]_vars

\* localhost with a port is admitted while a roster with a self node is
\* installed
C3_Witness ==
    /\ req.remote = JoinHostPort(LitLocalhost, TxtPort)
    /\ Admitted(resp)
    /\ ~lb.nil
    /\ lb.hasSelf

\* the remote addresses whose host is neither a loopback literal nor the
\* text of an IP address
InvalidRemotes ==
    {<<>>, TxtLocalhostUpper, TxtHostname, JoinHostPort(TxtHostname, TxtPort),
     TxtLeadingZero, JoinHostPort(TxtLeadingZero, TxtPort), TxtOctetTooBig,
     TxtFiveFields, TxtTrailingDot, TxtBracketNoPort, TxtEmptyHost, TxtPrefixNoAddr}

\* C4: a request whose host is not a loopback literal and is not the text of
\* an IP address is denied with 403 under every roster, and no handler runs.
C4_UnparseableDenied ==
    [][(Served /\ req'.remote \in InvalidRemotes) =>
          /\ Denied(resp')
          /\ resp'.reason = "invalid address"
          /\ tasks' = tasks]_vars

\* an octet with a leading zero is refused while a roster is installed
C4_Witness ==
    /\ req.remote = JoinHostPort(TxtLeadingZero, TxtPort)
    /\ Denied(resp)
    /\ ~lb.nil

\* the valid addresses that are neither a loopback literal nor in a static
\* overlay range, each with the texts it may arrive as
OutsiderAddrs ==
    {AddrFrom4(f) : f \in {g \in V4Pool : ~InCgnat(g) /\ g # <<127, 0, 0, 1>>}}
        \cup {AddrGlobal6, AddrLoop6, AddrMappedPrivate, AddrLinkLocalZone}

OutsiderTexts(a) ==
    CASE a = AddrGlobal6       -> {TxtGlobal6}
      [] a = AddrLoop6         -> {TxtLoop6Long}
      [] a = AddrMappedPrivate -> {TxtMappedPrivate}
      [] a = AddrLinkLocalZone -> {TxtLinkLocalZone}
      [] OTHER                 -> {String4(SubSeq(a.b, 13, 16))}

IsRemoteOf(r, a) ==
    \E t \in OutsiderTexts(a) : r = t \/ r = JoinHostPort(t, TxtPort)

C9_WitnessNil ==
    /\ req.remote = JoinHostPort(TxtGlobal6, TxtPort)
    /\ Denied(resp)
    /\ lb.nil

(***************************************************************************)
(* Properties of the shutdown route and of the actuator                    *)
(***************************************************************************)
\* position of call c in the calls of response r, 0 when it was not made
CallAt(r, c) == IndexByte(r.calls, c)

\* the platform calls that take the machine down
PowerOffCmds ==
    {PrimaryCmd(os, f) : os \in Platforms, f \in BOOLEAN} \cup {FallbackCmd(f) : f \in BOOLEAN}

\* C5: for every admitted POST /shutdown the body is written and flushed
\* before the goroutine is started, and a goroutine issues a platform call
\* only after its pre-action sleep has returned; no platform call starts
\* before the response bytes were sent.
C5_ResponseBeforeActuation ==
    /\ \A i \in 1..Len(tasks) :
          /\ tasks[i].sent
          /\ tasks[i].ran # <<>> => tasks[i].slept
          /\ tasks[i].pc # "sleep" => tasks[i].slept
    /\ CallAt(resp, "go ShutdownSystem") # 0 =>
          /\ 0 < CallAt(resp, "Fprintf")
          /\ CallAt(resp, "Fprintf") < CallAt(resp, "Flush")
          /\ CallAt(resp, "Flush") < CallAt(resp, "go ShutdownSystem")

\* a goroutine has issued a power-off command
C5_Witness ==
    \E i \in 1..Len(tasks) :
       /\ tasks[i].slept
       /\ tasks[i].sent
       /\ \E k \in 1..Len(tasks[i].ran) : tasks[i].ran[k].cmd \in PowerOffCmds

\* the primary mechanism of task t failed
PrimaryFailed(t) ==
    \E k \in 1..Len(t.ran) :
       ~t.ran[k].ok /\ t.ran[k].cmd \notin {FallbackCmd(TRUE), FallbackCmd(FALSE)}

\* the fallback mechanism of task t was attempted, and succeeded
FallbackTried(t) ==
    \E k \in 2..Len(t.ran) : t.ran[k].cmd \in {FallbackCmd(TRUE), FallbackCmd(FALSE)}

FallbackOk(t) ==
    \E k \in 2..Len(t.ran) :
       t.ran[k].cmd \in {FallbackCmd(TRUE), FallbackCmd(FALSE)} /\ t.ran[k].ok

\* C6 as stated: in every build and for both values of force, the fallback
\* is attempted exactly when the primary failed; the call returns nil when
\* the primary succeeded or the fallback did; it returns an error only when
\* both failed, and that error combines the two errors.
C6_PrimaryFallback ==
    \A i \in 1..Len(tasks) :
       LET t == tasks[i]
       IN  t.pc = "done" =>
              /\ FallbackTried(t) <=> PrimaryFailed(t)
              /\ t.err = {} <=> (~PrimaryFailed(t) \/ FallbackOk(t))
              /\ t.err # {} => t.err = {"primary", "fallback"}

\* C10: for an admitted POST /shutdown the goroutine is started with force
\* set exactly when the first value of the query parameter force is the
\* string true, and the body names the mode handed to the goroutine.
C10_ForceExactlyTrue ==
    [][(Served /\ req'.path = "/shutdown" /\ req'.method = "POST" /\ resp'.allow) =>
          /\ Len(tasks') = Len(tasks) + 1
          /\ LET t == tasks'[Len(tasks')]
             IN  /\ t.force <=> (req'.query # <<>> /\ req'.query[1] = "true")
                 /\ resp'.mode = (IF t.force THEN "forced" ELSE "graceful")
          /\ resp'.status = 200]_vars

\* force=TRUE started a graceful shutdown
C10_Witness ==
    /\ req.query = <<"TRUE">>
    /\ resp.mode = "graceful"
    /\ Len(tasks) >= 1
    /\ ~tasks[Len(tasks)].force

(***************************************************************************)
(* Properties of the metrics collector                                     *)
(***************************************************************************)
\* the step serves an admitted GET /metrics whose CPU reading succeeded
Sampled ==
    /\ Served
    /\ req'.path = "/metrics"
    /\ req'.method = "GET"
    /\ resp'.allow
    /\ ~req'.env.cpu.err

\* no sample is stored before the step
NoSampleYet ==
    CASE goos = "linux"   -> lastCPUStats = ZeroCPUStats
      [] goos = "windows" -> lastCPUTimes = ZeroCPUTimes
      [] OTHER            -> TRUE

\* the counters of the reading are stored after the step
SampleStored ==
    CASE goos = "linux" ->
           /\ lastCPUStats'.idle = req'.env.cpu.idle
           /\ lastCPUStats'.user = req'.env.cpu.user
           /\ lastCPUStats'.total = req'.env.cpu.user + req'.env.cpu.nice
                 + req'.env.cpu.system + req'.env.cpu.idle + req'.env.cpu.iowait
                 + req'.env.cpu.irq
      [] goos = "windows" ->
           /\ lastCPUTimes'.idle = req'.env.cpu.idle
           /\ lastCPUTimes'.kernel = req'.env.cpu.kernel
           /\ lastCPUTimes'.user = req'.env.cpu.user
      [] OTHER -> FALSE

\* the growth of the idle and of the total counter from the stored sample
\* to the reading
IdleGrowth ==
    IF goos = "windows" THEN req'.env.cpu.idle - lastCPUTimes.idle
    ELSE req'.env.cpu.idle - lastCPUStats.idle

TotalGrowth ==
    IF goos = "windows"
    THEN (req'.env.cpu.kernel - lastCPUTimes.kernel) + (req'.env.cpu.user - lastCPUTimes.user)
    ELSE (req'.env.cpu.user + req'.env.cpu.nice + req'.env.cpu.system + req'.env.cpu.idle
          + req'.env.cpu.iowait + req'.env.cpu.irq) - lastCPUStats.total

\* the delta rule: 0% and the snapshot stored on the first call; 50.00% for
\* idle +50 and total +100; 100 * (1 - idle/total) when 0 < idle <= total
DeltaRule ==
    /\ NoSampleYet => (resp'.metrics.CPUPercent = 0 /\ SampleStored)
    /\ (~NoSampleYet /\ IdleGrowth = 50 /\ TotalGrowth = 100) =>
          resp'.metrics.CPUPercent = 5000
    /\ (~NoSampleYet /\ 0 < IdleGrowth /\ IdleGrowth <= TotalGrowth) =>
          resp'.metrics.CPUPercent = (10000 * (TotalGrowth - IdleGrowth)) \div TotalGrowth

FieldsCarry(rd, used, total, percent) ==
    IF rd.err THEN used = 0 /\ total = 0 /\ percent = 0
    ELSE used = rd.a /\ total = rd.b

\* C8: collection never fails: under every combination of failing
\* sub-measurements an admitted GET /metrics is answered 200 with a
\* SystemMetrics in which the fields of a failed query are zero and the
\* fields of a successful query carry what was measured.
C8_CollectNeverFails ==
    (req.path = "/metrics" /\ req.method = "GET" /\ resp.allow) =>
       LET m == resp.metrics
           e == req.env
       IN  /\ resp.status = 200
           /\ e.cpu.err => m.CPUPercent = 0
           /\ (~e.cpu.err /\ goos = "darwin") => m.CPUPercent = 10000 - e.cpu.idle
           /\ FieldsCarry(e.mem, m.MemoryUsed, m.MemoryTotal, m.MemoryPercent)
           /\ FieldsCarry(e.disk, m.DiskUsed, m.DiskTotal, m.DiskPercent)
           /\ IF goos = "windows"
              THEN m.NetworkBytesSent = 0 /\ m.NetworkBytesRecv = 0
              ELSE FieldsCarry(e.net, m.NetworkBytesSent, m.NetworkBytesRecv, 0)
           /\ m.UptimeSeconds = (IF e.up.err THEN 0 ELSE e.up.a)

\* every sub-measurement failed and the answer is 200 with all fields zero
C8_Witness ==
    /\ req.path = "/metrics"
    /\ req.method = "GET"
    /\ resp.allow
    /\ req.env.cpu.err /\ req.env.mem.err /\ req.env.disk.err /\ req.env.net.err
    /\ req.env.up.err
    /\ resp.status = 200
    /\ resp.metrics = ZeroMetrics

\* only the memory query failed: its fields are zero, the others measured
C8_WitnessPartial ==
    /\ req.path = "/metrics"
    /\ resp.allow
    /\ req.env.mem.err /\ ~req.env.disk.err /\ ~req.env.up.err
    /\ resp.status = 200
    /\ resp.metrics.MemoryTotal = 0
    /\ resp.metrics.DiskTotal = 1000
    /\ resp.metrics.UptimeSeconds = 3600

(***************************************************************************)
(* Properties of the routes                                                *)
(***************************************************************************)
\* the method a route accepts
RouteMethod(path) == IF Route(path) = "handleShutdown" THEN "POST" ELSE "GET"

\* the calls that reach the collector or the actuator
BackendCalls == {"GetSystemMetrics", "os.Hostname", "go ShutdownSystem"}

\* C11: an admitted request whose method is not the one its route accepts
\* (GET for / and /metrics, POST for /shutdown) is answered 405, neither the
\* collector nor the actuator is called, no goroutine is started and the
\* stored CPU sample is unchanged.
C11_MethodBeforeBackend ==
    [][(Served /\ resp'.allow /\ req'.method # RouteMethod(req'.path)) =>
          /\ resp'.status = 405
          /\ \A k \in 1..Len(resp'.calls) : resp'.calls[k] \notin BackendCalls
          /\ resp'.metrics = ZeroMetrics
          /\ tasks' = tasks
          /\ lastCPUStats' = lastCPUStats
          /\ lastCPUTimes' = lastCPUTimes]_vars

\* a POST to /metrics after a sample was stored: 405 and the sample kept
C11_Witness ==
    /\ req.path = "/metrics"
    /\ req.method = "POST"
    /\ resp.allow
    /\ resp.status = 405
    /\ (lastCPUStats # ZeroCPUStats \/ lastCPUTimes # ZeroCPUTimes)

\* a HEAD to /shutdown: 405 and no goroutine
C11_WitnessShutdown ==
    /\ req.path = "/shutdown"
    /\ req.method = "HEAD"
    /\ resp.allow
    /\ resp.status = 405
    /\ tasks = <<>>

\* a goroutine ended with an error
ActuatorFailed == \E i \in 1..Len(tasks) : tasks[i].pc = "done" /\ tasks[i].err # {}

\* C12: the handler of an admitted POST /shutdown answers 200 while the
\* goroutine it started has not run past its first statement; no step of a
\* goroutine, failing or not, changes a response; and while the machine is
\* up after a goroutine ended with an error, the service still serves the
\* request of a local client.
C12_FailureNotSurfaced ==
    /\ []((ActuatorFailed /\ power # "off") =>
             ENABLED ServeHTTP({JoinHostPort(Lit127001, TxtPort)}, {"/shutdown"}, {"GET"},
                               Queries, {QuietEnv}))
    /\ [][/\ (Served /\ req'.path = "/shutdown" /\ req'.method = "POST" /\ resp'.allow) =>
               /\ resp'.status = 200
               /\ tasks'[Len(tasks')].pc = "sleep"
               /\ tasks'[Len(tasks')].ran = <<>>
               /\ tasks'[Len(tasks')].err = {}
          /\ (~Served /\ tasks' # tasks) => (resp' = resp /\ req' = req)
          /\ (ActuatorFailed /\ Served) => resp'.status \in {200, 403, 405}]_vars

\* the goroutine of a request answered 200 ended with an error while the
\* machine stays up
C12_Witness ==
    /\ ActuatorFailed
    /\ power = "on"
    /\ req.path = "/shutdown"
    /\ req.method = "POST"
    /\ resp.status = 200
    /\ resp.mode # ""

\* a request answered after the goroutine of an earlier one was started
C12_WitnessLater ==
    /\ ActuatorFailed
    /\ power = "on"
    /\ req.method = "GET"
    /\ resp.status = 405

(***************************************************************************)
(* Properties of the numbers the collector reports                         *)
(***************************************************************************)
\* percent, in hundredths, is used / total * 100 cut to two decimals when
\* total > 0, and 0 when total is 0
IsShare(percent, used, total) ==
    IF total > 0
    THEN percent * total <= used * 10000 /\ used * 10000 < (percent + 1) * total
    ELSE percent = 0

\* C13: in the answer to an admitted GET /metrics whose memory query
\* succeeded, the memory percent is used / total * 100 when total > 0 and 0
\* when total is 0, whatever used and total are; the same holds of the disk
\* percent.
C13_PercentGuarded ==
    (req.path = "/metrics" /\ req.method = "GET" /\ resp.allow) =>
       LET m == resp.metrics
       IN  /\ ~req.env.mem.err =>
                /\ m.MemoryUsed = req.env.mem.a
                /\ m.MemoryTotal = req.env.mem.b
                /\ IsShare(m.MemoryPercent, req.env.mem.a, req.env.mem.b)
           /\ ~req.env.disk.err =>
                /\ m.DiskUsed = req.env.disk.a
                /\ m.DiskTotal = req.env.disk.b
                /\ IsShare(m.DiskPercent, req.env.disk.a, req.env.disk.b)
           /\ resp.status = 200

\* a memory total of zero with a used amount above zero, reported as 0%
C13_Witness ==
    /\ req.path = "/metrics"
    /\ resp.status = 200
    /\ ~req.env.mem.err
    /\ req.env.mem.a > 0
    /\ req.env.mem.b = 0
    /\ resp.metrics.MemoryUsed > 0
    /\ resp.metrics.MemoryPercent = 0

\* 512 of 1000 reported as 51.20%, with a disk total of zero reported as 0%
C13_WitnessShare ==
    /\ req.path = "/metrics"
    /\ resp.status = 200
    /\ resp.metrics.MemoryUsed = 512
    /\ resp.metrics.MemoryTotal = 1000
    /\ resp.metrics.MemoryPercent = 5120
    /\ ~req.env.disk.err
    /\ req.env.disk.b = 0
    /\ resp.metrics.DiskPercent = 0

\* C15 as stated: whatever the stored sample and the new snapshot are, the
\* CPU sampler reports 0 when the total counter did not grow, and otherwise
\* a percentage within 0..100; it never reports a negative percentage or
\* one above 100.
C15_UsageWithinRange ==
    [][Sampled =>
          /\ resp'.metrics.CPUPercent >= 0
          /\ resp'.metrics.CPUPercent <= 10000
          /\ (goos # "darwin" /\ ~NoSampleYet /\ TotalGrowth <= 0) =>
                resp'.metrics.CPUPercent = 0]_vars

(***************************************************************************)
(* Properties of concurrent metrics requests                               *)
(***************************************************************************)
\* the values a call loaded from lastCPUStats are those of one snapshot,
\* taken at tick j
LoadedSnapshot(c, j) ==
    /\ c.lastTotal = StatsAt(j).total
    /\ c.lastIdle = StatsAt(j).idle

\* C14 as stated: whatever the interleaving of concurrent metrics requests,
\* a call that computed a delta computed it against one whole stored
\* snapshot taken no later than its own, so its percentage is the delta
\* between the two and lies within 0..100.
C14_SerializedSample ==
    \A i \in 1..MaxSamplers :
       LET c == samplers.g[i]
       IN  (c.pc = "done" /\ c.compared) =>
              /\ \E j \in 0..MaxTicks :
                    /\ j < c.stats.time
                    /\ LoadedSnapshot(c, j)
              /\ c.usage \in 0..10000

(***************************************************************************)
(* Properties of the gate's decision across address forms and requests     *)
(***************************************************************************)
\* the text ::ffff:a.b.c.d of the IPv4 address f
MappedText(f) == <<":", ":", "f", "f", "f", "f", ":">> \o String4(f)

\* C16 as stated: the decision of the gate for the remote address
\* ::ffff:a.b.c.d, with or without a port, is its decision for a.b.c.d under
\* the same roster.
C16_MappedAsIPv4 ==
    [][Served =>
          \A f \in V4Pool :
             req'.remote \in {MappedText(f), JoinHostPort(MappedText(f), TxtPort)} =>
                resp'.allow = Decide(lb, String4(f)).allow]_vars

\* the roster lists a as one of the node's own addresses
Lists(backend, a) == ~backend.nil /\ backend.hasSelf /\ a \in backend.TailscaleIPs

\* remote addresses whose decision no roster can change
StaticRemotes ==
    LoopbackRemotes \cup InvalidRemotes
       \cup {r \in AllRemotes : \E f \in V4Pool : InCgnat(f) /\ IsV4Remote(r, f)}

\* C17: every request is decided from its own remote address and the
\* roster as it is when the request is served: a client outside the static
\* ranges is admitted exactly when the roster lists it now, whatever was
\* answered to its earlier requests; a client whose address no roster can
\* change gets the answer it got before; and serving a request leaves the
\* roster as it was.
C17_DecidedFresh ==
    [][Served =>
          /\ lb' = lb
          /\ \A a \in OutsiderAddrs :
                IsRemoteOf(req'.remote, a) =>
                   /\ Admitted(resp') <=> Lists(lb, a)
                   /\ Denied(resp') <=> ~Lists(lb, a)
          /\ (req.method # "" /\ req'.remote = req.remote /\ req'.remote \in StaticRemotes) =>
                (Admitted(resp') <=> Admitted(resp))]_vars

\* a later request of a client is admitted as one of the node's own
\* addresses
C17_Witness ==
    /\ req.seq = 0
    /\ req.method # ""
    /\ Admitted(resp)
    /\ resp.reason = "own address"
    /\ \E a \in OutsiderAddrs : IsRemoteOf(req.remote, a) /\ Lists(lb, a)

\* a client was denied and the roster has come to list it since
C17_WitnessStale ==
    /\ Denied(resp)
    /\ resp.reason = "not a network member"
    /\ \E a \in OutsiderAddrs : IsRemoteOf(req.remote, a) /\ Lists(lb, a)

(***************************************************************************)
(* Properties of the number of actuator invocations                        *)
(***************************************************************************)
\* how often call c was made while r was served
RECURSIVE CountCalls(_, _)
CountCalls(calls, c) ==
    IF calls = <<>> THEN 0
    ELSE (IF Head(calls) = c THEN 1 ELSE 0) + CountCalls(Tail(calls), c)

\* the step serves an admitted POST to /shutdown
ShutdownPosted ==
    /\ Served
    /\ req'.path = "/shutdown"
    /\ req'.method = "POST"
    /\ Admitted(resp')

C18_WitnessOtherPath ==
    /\ req.path = "/status"
    /\ req.method = "POST"
    /\ Admitted(resp)
    /\ resp.status = 405
    /\ tasks = <<>>

====
